---------------------------- MODULE Spec2Model ----------------------------
(***************************************************************************)
(* Seeds of Sound - js/script.js.                                          *)
(*                                                                         *)
(* Two components are wired up by the DOMContentLoaded listener of every   *)
(* page: the dark mode toggle (initialiseThemeToggle, updateThemeIcon) and *)
(* the pledge form (initialisePledgeForm, its submit listener, the         *)
(* setTimeout callback and renderCommitment).  localStorage is shared by   *)
(* all pages (tabs) of the origin; everything else is state of one page.   *)
(***************************************************************************)
EXTENDS Integers, Sequences, FiniteSets, TLC

(***************************************************************************)
(* Bounds of the model.                                                    *)
(***************************************************************************)
\* Longest array of commitments a page holds in memory.
MaxCommitments == 2
\* Last instant of the wall clock, in seconds.
MaxTime == 4
\* Most calls of updateThemeIcon in a row that are recorded.
MaxCalls == 2

\* setTimeout(..., 4000): the delay of the clearing timer, in seconds.
Delay == 4

Tabs == {1, 2}

(***************************************************************************)
(* Strings the program handles character by character are sequences of    *)
(* one-character strings.                                                  *)
(***************************************************************************)
Letters == {"a", "b", "c", "i", "u", "H", "P", "W", "M"}
Whitespace == {" "}

Undefined == <<"u">>          \* what `${undefined}` interpolates (abbreviated)

\* localStorage.getItem(key) of a key that was never set.
Null == "<null>"
ThemeValues == {Null, "dark", "light", "blue"}

\* The string shown by the submit listener, and the cleared message.
Confirmation == "Thank you! Your commitment has been recorded."
NoText == ""

\* The two glyphs and titles of updateThemeIcon.
Sun == "sun"
Moon == "moon"
\* The button before updateThemeIcon has filled it: no child, no title.
NoIcon == [glyphs |-> <<>>, title |-> "none"]

(***************************************************************************)
(* String.prototype.trim                                                   *)
(***************************************************************************)
RECURSIVE TrimStart(_)
TrimStart(s) ==
    IF s = <<>> THEN <<>>
    ELSE IF Head(s) \in Whitespace THEN TrimStart(Tail(s)) ELSE s

RECURSIVE TrimEnd(_)
TrimEnd(s) ==
    IF s = <<>> THEN <<>>
    ELSE IF s[Len(s)] \in Whitespace THEN TrimEnd(SubSeq(s, 1, Len(s) - 1)) ELSE s

Trim(s) == TrimEnd(TrimStart(s))

(***************************************************************************)
(* element.innerHTML = `...${s}...`: the text the element shows for an     *)
(* interpolated string.  "<" followed by a letter (or by "/" and a letter) *)
(* opens a tag, which lasts up to the next ">" (or the end of input) and   *)
(* shows nothing; every other character is shown.                          *)
(***************************************************************************)
RECURSIVE HtmlScan(_, _, _)
HtmlScan(s, i, inTag) ==
    IF i > Len(s) THEN <<>>
    ELSE IF inTag
         THEN HtmlScan(s, i + 1, s[i] # ">")
         ELSE IF /\ s[i] = "<"
                 /\ \/ (i + 1 <= Len(s) /\ s[i + 1] \in Letters)
                    \/ (i + 2 <= Len(s) /\ s[i + 1] = "/" /\ s[i + 2] \in Letters)
              THEN HtmlScan(s, i + 1, TRUE)
              ELSE <<s[i]>> \o HtmlScan(s, i + 1, FALSE)

HtmlText(s) == HtmlScan(s, 1, FALSE)


(***************************************************************************)
(* Values kept in localStorage under `commitments`.  A stored string is    *)
(* absent (getItem gives null), the empty string, text that is not JSON,   *)
(* or the JSON text of a value: null, an object, or an array of items.     *)
(***************************************************************************)
StoredAbsent == [kind |-> "absent", shape |-> "none", items |-> <<>>]
StoredEmpty == [kind |-> "empty", shape |-> "none", items |-> <<>>]
StoredGarbage == [kind |-> "garbage", shape |-> "none", items |-> <<>>]
StoredJsonNull == [kind |-> "json", shape |-> "null", items |-> <<>>]
StoredJsonObject == [kind |-> "json", shape |-> "object", items |-> <<>>]

\* Array items that are no commitment records: the JSON values 1 and null.
JsonNumber == [prim |-> "number"]
JsonNull == [prim |-> "null"]

IsPrimitive(item) == "prim" \in DOMAIN item

\* JSON.stringify(commitments), line 90.
JSONstringify(array) == [kind |-> "json", shape |-> "array", items |-> array]

\* JSON.parse(stored), line 76: throws a SyntaxError on text that is not JSON.
JSONparse(s) ==
    IF s.kind = "json"
    THEN [threw |-> FALSE, shape |-> s.shape, items |-> s.items]
    ELSE [threw |-> TRUE, shape |-> "none", items |-> <<>>]

\* `stored ? ... : ...`: null and "" are falsy.
Truthy(s) == s.kind \notin {"absent", "empty"}

(***************************************************************************)
(* The form: the fields a submit event finds, and the fields after         *)
(* form.reset().                                                           *)
(***************************************************************************)
FormDefaults == [category |-> <<"H">>, text |-> <<>>, remind |-> <<"W">>]

ValidInputs ==
    { [category |-> <<"H">>, text |-> <<" ", "a", " ">>, remind |-> <<"W">>],
      [category |-> <<"P">>, text |-> <<"<", "i", ">", "c">>, remind |-> <<"M">>] }

BlankInputs ==
    { FormDefaults,
      [category |-> <<"P">>, text |-> <<" ", " ">>, remind |-> <<"M">>] }

FormInputs == ValidInputs \cup BlankInputs

(***************************************************************************)
(* Page markup: which of the elements the script looks up are present,     *)
(* and whether <body> carries the class `dark` in the markup itself.       *)
(***************************************************************************)
NoPage ==
    [toggle |-> FALSE, form |-> FALSE, list |-> FALSE, message |-> FALSE,
     bodyDark |-> FALSE]

FullPage ==
    [toggle |-> TRUE, form |-> TRUE, list |-> TRUE, message |-> TRUE,
     bodyDark |-> FALSE]

TogglePage == [FullPage EXCEPT !.form = FALSE, !.list = FALSE, !.message = FALSE]

\* The pages of the site: seeds.html with or without the optional message
\* element or the toggle, and a page that has the toggle only.
Markups ==
    { FullPage,
      [FullPage EXCEPT !.message = FALSE],
      [FullPage EXCEPT !.toggle = FALSE],
      TogglePage }

\* Those pages, and pages that lack only the form or only the list, lack
\* every element, or put `dark` on <body> in the markup.
AllMarkups ==
    Markups \cup
    { NoPage,
      [FullPage EXCEPT !.list = FALSE],
      [FullPage EXCEPT !.form = FALSE],
      [FullPage EXCEPT !.bodyDark = TRUE],
      [FullPage EXCEPT !.toggle = FALSE, !.bodyDark = TRUE] }

VARIABLES
    theme,          \* localStorage item `theme`
    stored,         \* localStorage item `commitments`
    now,            \* wall clock, seconds
    markup,         \* per tab: the markup of the page it shows
    dark,           \* per tab: document.body.classList.contains('dark')
    icon,           \* per tab: child glyphs and title of the toggle button
    clickHandler,   \* per tab: the click listener is registered
    submitHandler,  \* per tab: the submit listener is registered
    threw,          \* per tab: an exception escaped the DOMContentLoaded listener
    commitments,    \* per tab: the array `commitments` of initialisePledgeForm
    list,           \* per tab: children of #pledges-list
    form,           \* per tab: field values of #pledge-form
    message,        \* per tab: textContent of #pledge-message
    timers,         \* per tab: pending setTimeout callbacks, by due time
    clicks,         \* history: state before each of the latest consecutive clicks
    iconCalls       \* history, per tab: the button after each call of
                    \* updateThemeIcon since the document state last changed

vars ==
    <<theme, stored, now, markup, dark, icon, clickHandler, submitHandler, threw,
      commitments, list, form, message, timers, clicks, iconCalls>>

themeVars == <<dark, icon, clickHandler>>
pledgeVars == <<submitHandler, threw, commitments, list, form, message, timers>>

\* Mutant of UpdateThemeIcon: the sun for light mode, the moon for dark mode.
UpdateThemeIconSwapped(m, isDark, old) ==
    IF ~m.toggle THEN old
    ELSE [glyphs |-> <<IF isDark THEN "moon" ELSE "sun">>,
          title |-> IF isDark THEN "Switch to light mode" ELSE "Switch to dark mode"]

\* Mutant of UpdateThemeIcon: the span is appended to a button that is not
\* emptied first (line 52 missing).
UpdateThemeIconAppends(m, isDark, old) ==
    IF ~m.toggle THEN old
    ELSE [glyphs |-> Append(old.glyphs, IF isDark THEN "sun" ELSE "moon"),
          title |-> IF isDark THEN "Switch to light mode" ELSE "Switch to dark mode"]

(***************************************************************************)
(* updateThemeIcon, lines 47-58: the button is emptied, then given one     *)
(* span with the glyph, and its title is set.                              *)
(***************************************************************************)
UpdateThemeIcon(m, isDark, old) ==
    IF ~m.toggle THEN old
    ELSE [glyphs |-> <<IF isDark THEN Sun ELSE Moon>>,
          title |-> IF isDark THEN "Switch to light mode" ELSE "Switch to dark mode"]

\* Mutant of InitialiseThemeToggle: the saved theme is applied before the
\* toggle is looked up (lines 27-30 ahead of line 24).
InitialiseThemeToggleNoGuard(m, savedTheme) ==
    LET isDark == m.bodyDark \/ savedTheme = "dark"
    IN IF ~m.toggle
       THEN [dark |-> isDark, icon |-> NoIcon, handler |-> FALSE]
       ELSE [dark |-> isDark,
             icon |-> UpdateThemeIcon(m, isDark, NoIcon),
             handler |-> TRUE]

\* Mutant of InitialiseThemeToggle: the saved theme is not applied (lines
\* 27-30 missing).
InitialiseThemeToggleIgnoresSaved(m, savedTheme) ==
    IF ~m.toggle
    THEN [dark |-> m.bodyDark, icon |-> NoIcon, handler |-> FALSE]
    ELSE [dark |-> m.bodyDark,
          icon |-> UpdateThemeIcon(m, m.bodyDark, NoIcon),
          handler |-> TRUE]

(***************************************************************************)
(* initialiseThemeToggle, lines 22-41, on a freshly parsed page.           *)
(***************************************************************************)
InitialiseThemeToggle(m, savedTheme) ==
    IF ~m.toggle
    THEN [dark |-> m.bodyDark, icon |-> NoIcon, handler |-> FALSE]
    ELSE LET isDark == m.bodyDark \/ savedTheme = "dark"
         IN [dark |-> isDark,
             icon |-> UpdateThemeIcon(m, isDark, NoIcon),
             handler |-> TRUE]

\* Mutant of ThemeName: the two names exchanged.
ThemeNameSwapped(isDark) == IF isDark THEN "light" ELSE "dark"

\* isDark ? 'dark' : 'light', line 38.
ThemeName(isDark) == IF isDark THEN "dark" ELSE "light"

(***************************************************************************)
(* renderCommitment, lines 105-119.  Reading a property of null throws;    *)
(* a property the item lacks reads as undefined.                           *)
(***************************************************************************)
RenderThrows(c) == IsPrimitive(c) /\ c.prim = "null"

Field(c, name) == IF name \in DOMAIN c THEN c[name] ELSE Undefined

\* new Date(timestamp).toLocaleDateString(...): the calendar day, or "Invalid Date".
DateString(c) ==
    IF "timestamp" \in DOMAIN c
    THEN [valid |-> TRUE, day |-> c.timestamp \div 86400]
    ELSE [valid |-> FALSE, day |-> 0]

RenderCommitment(c) ==
    [category |-> HtmlText(Field(c, "category")),
     date |-> DateString(c),
     text |-> HtmlText(Field(c, "text")),
     remind |-> HtmlText(Field(c, "remind"))]

\* commitments.forEach(c => renderCommitment(c)), line 80: stops at the first throw.
RECURSIVE ForEachRender(_, _)
ForEachRender(items, done) ==
    IF items = <<>> THEN [threw |-> FALSE, list |-> done]
    ELSE IF RenderThrows(Head(items)) THEN [threw |-> TRUE, list |-> done]
    ELSE ForEachRender(Tail(items), Append(done, RenderCommitment(Head(items))))

(***************************************************************************)
(* initialisePledgeForm up to the registration of the listener, lines      *)
(* 66-82, on a freshly parsed page.                                        *)
(***************************************************************************)
\* Mutant of LoadCommitments: the array starts empty whatever is stored
\* (lines 75-79 missing).
LoadCommitmentsEmpty(s) == [shape |-> "array", items |-> <<>>]

LoadCommitments(s) ==
    IF ~Truthy(s) THEN [shape |-> "array", items |-> <<>>]
    ELSE LET p == JSONparse(s)
         IN IF p.threw THEN [shape |-> "array", items |-> <<>>]
            ELSE [shape |-> p.shape, items |-> p.items]

InitialisePledgeForm(m, s) ==
    IF ~m.form \/ ~m.list
    THEN [threw |-> FALSE, handler |-> FALSE, commitments |-> <<>>, list |-> <<>>]
    ELSE LET c == LoadCommitments(s)
             r == ForEachRender(c.items, <<>>)
         IN IF c.shape # "array"
            THEN \* value.forEach is not a function: TypeError
                 [threw |-> TRUE, handler |-> FALSE, commitments |-> <<>>, list |-> <<>>]
            ELSE [threw |-> r.threw, handler |-> ~r.threw,
                  commitments |-> c.items, list |-> r.list]

\* Mutant of NewCommitment: the text is stored as typed.
NewCommitmentUntrimmed(fields, time) ==
    [category |-> fields.category, text |-> fields.text,
     remind |-> fields.remind, timestamp |-> time]

(***************************************************************************)
(* The record built by the submit listener, line 88.                       *)
(***************************************************************************)
NewCommitment(fields, time) ==
    [category |-> fields.category, text |-> Trim(fields.text),
     remind |-> fields.remind, timestamp |-> time]

\* Mutant of IsValid: the text is tested without trimming it.
IsValidUntrimmed(fields) == fields.text # <<>>

\* `if (!text) return;`, line 87, text being the trimmed field of line 85.
IsValid(fields) == Trim(fields.text) # <<>>

(***************************************************************************)
(* Initial states: localStorage in any state an earlier session or another *)
(* script may have left it in; no tab has loaded a page yet.               *)
(***************************************************************************)
EarlierCommitment ==
    [category |-> <<"P">>, text |-> <<"b">>, remind |-> <<"W">>, timestamp |-> 0]

WellFormedStored ==
    { StoredAbsent, JSONstringify(<<>>), JSONstringify(<<EarlierCommitment>>) }

MalformedStored ==
    { StoredEmpty, StoredGarbage, StoredJsonNull, StoredJsonObject,
      JSONstringify(<<JsonNumber>>), JSONstringify(<<JsonNull>>) }

InitWith(themes, storeds) ==
    /\ theme \in themes
    /\ stored \in storeds
    /\ now = 0
    /\ markup = [t \in Tabs |-> NoPage]
    /\ dark = [t \in Tabs |-> FALSE]
    /\ icon = [t \in Tabs |-> NoIcon]
    /\ clickHandler = [t \in Tabs |-> FALSE]
    /\ submitHandler = [t \in Tabs |-> FALSE]
    /\ threw = [t \in Tabs |-> FALSE]
    /\ commitments = [t \in Tabs |-> <<>>]
    /\ list = [t \in Tabs |-> <<>>]
    /\ form = [t \in Tabs |-> FormDefaults]
    /\ message = [t \in Tabs |-> NoText]
    /\ timers = [t \in Tabs |-> <<>>]
    /\ clicks = <<>>
    /\ iconCalls = [t \in Tabs |-> <<>>]

(***************************************************************************)
(* DOMContentLoaded, lines 12-15: the tab shows a freshly parsed page (a   *)
(* first load or a reload; timers of the page it replaces are discarded)   *)
(* and runs initialiseThemeToggle, then initialisePledgeForm.              *)
(***************************************************************************)
Load(t, m) ==
    LET th == InitialiseThemeToggle(m, theme)
        pl == InitialisePledgeForm(m, stored)
    IN /\ markup' = [markup EXCEPT ![t] = m]
       /\ dark' = [dark EXCEPT ![t] = th.dark]
       /\ icon' = [icon EXCEPT ![t] = th.icon]
       /\ clickHandler' = [clickHandler EXCEPT ![t] = th.handler]
       /\ submitHandler' = [submitHandler EXCEPT ![t] = pl.handler]
       /\ threw' = [threw EXCEPT ![t] = pl.threw]
       /\ commitments' = [commitments EXCEPT ![t] = pl.commitments]
       /\ list' = [list EXCEPT ![t] = pl.list]
       /\ form' = [form EXCEPT ![t] = FormDefaults]
       /\ message' = [message EXCEPT ![t] = NoText]
       /\ timers' = [timers EXCEPT ![t] = <<>>]
       /\ clicks' = <<>>
       /\ iconCalls' = [iconCalls EXCEPT ![t] = IF m.toggle THEN <<th.icon>> ELSE <<>>]
       /\ UNCHANGED <<theme, stored, now>>

(***************************************************************************)
(* The click listener, lines 35-40.                                        *)
(***************************************************************************)
Snapshot(t) == [tab |-> t, dark |-> dark[t], theme |-> theme]

\* Mutant of Click: classList.add in place of classList.toggle.
ClickAddsDark(t) ==
    /\ clickHandler[t]
    /\ dark' = [dark EXCEPT ![t] = TRUE]
    /\ theme' = ThemeName(TRUE)
    /\ icon' = [icon EXCEPT ![t] = UpdateThemeIcon(markup[t], TRUE, icon[t])]
    /\ iconCalls' = [iconCalls EXCEPT ![t] = <<icon'[t]>>]
    /\ clicks' = IF clicks # <<>> /\ clicks[Len(clicks)].tab = t
                 THEN <<clicks[Len(clicks)], Snapshot(t)>>
                 ELSE <<Snapshot(t)>>
    /\ UNCHANGED <<stored, now, markup, clickHandler>>
    /\ UNCHANGED pledgeVars

\* Mutant of Click: the name is stored under `commitments`, not `theme`.
ClickWrongKey(t) ==
    /\ clickHandler[t]
    /\ LET isDark == ~dark[t]
       IN /\ dark' = [dark EXCEPT ![t] = isDark]
          /\ stored' = StoredGarbage
          /\ icon' = [icon EXCEPT ![t] = UpdateThemeIcon(markup[t], isDark, icon[t])]
    /\ iconCalls' = [iconCalls EXCEPT ![t] = <<icon'[t]>>]
    /\ clicks' = IF clicks # <<>> /\ clicks[Len(clicks)].tab = t
                 THEN <<clicks[Len(clicks)], Snapshot(t)>>
                 ELSE <<Snapshot(t)>>
    /\ UNCHANGED <<theme, now, markup, clickHandler>>
    /\ UNCHANGED pledgeVars

Click(t) ==
    /\ clickHandler[t]
    /\ LET isDark == ~dark[t]
       IN /\ dark' = [dark EXCEPT ![t] = isDark]
          /\ theme' = ThemeName(isDark)
          /\ icon' = [icon EXCEPT ![t] = UpdateThemeIcon(markup[t], isDark, icon[t])]
    /\ iconCalls' = [iconCalls EXCEPT ![t] = <<icon'[t]>>]
    /\ clicks' = IF clicks # <<>> /\ clicks[Len(clicks)].tab = t
                 THEN <<clicks[Len(clicks)], Snapshot(t)>>
                 ELSE <<Snapshot(t)>>
    /\ UNCHANGED <<stored, now, markup, clickHandler>>
    /\ UNCHANGED pledgeVars

\* Mutant of Submit: the confirmation is shown and no timer is set (line 96
\* missing).
SubmitNoTimer(t, fields) ==
    /\ submitHandler[t]
    /\ IF ~IsValid(fields)
       THEN /\ form' = [form EXCEPT ![t] = fields]
            /\ UNCHANGED <<stored, commitments, list, message, timers>>
       ELSE LET commitment == NewCommitment(fields, now)
                pushed == Append(commitments[t], commitment)
            IN /\ Len(commitments[t]) < MaxCommitments
               /\ commitments' = [commitments EXCEPT ![t] = pushed]
               /\ stored' = JSONstringify(pushed)
               /\ list' = [list EXCEPT ![t] = Append(@, RenderCommitment(commitment))]
               /\ form' = [form EXCEPT ![t] = FormDefaults]
               /\ IF markup[t].message
                  THEN /\ message' = [message EXCEPT ![t] = Confirmation]
                       /\ UNCHANGED timers
                  ELSE UNCHANGED <<message, timers>>
    /\ clicks' = <<>>
    /\ UNCHANGED <<theme, now, markup, submitHandler, threw, iconCalls>>
    /\ UNCHANGED themeVars

(***************************************************************************)
(* The submit listener, lines 82-98, on a submit event that finds the      *)
(* fields `fields` in the form.                                            *)
(***************************************************************************)
Submit(t, fields) ==
    /\ submitHandler[t]
    /\ IF ~IsValid(fields)
       THEN /\ form' = [form EXCEPT ![t] = fields]
            /\ UNCHANGED <<stored, commitments, list, message, timers>>
       ELSE LET commitment == NewCommitment(fields, now)
                pushed == Append(commitments[t], commitment)
            IN /\ Len(commitments[t]) < MaxCommitments
               /\ commitments' = [commitments EXCEPT ![t] = pushed]
               /\ stored' = JSONstringify(pushed)
               /\ list' = [list EXCEPT ![t] = Append(@, RenderCommitment(commitment))]
               /\ form' = [form EXCEPT ![t] = FormDefaults]
               /\ IF markup[t].message
                  THEN /\ message' = [message EXCEPT ![t] = Confirmation]
                       /\ timers' = [timers EXCEPT ![t] = Append(@, now + Delay)]
                  ELSE UNCHANGED <<message, timers>>
    /\ clicks' = <<>>
    /\ UNCHANGED <<theme, now, markup, submitHandler, threw, iconCalls>>
    /\ UNCHANGED themeVars

(***************************************************************************)
(* The setTimeout callback, line 96: the earliest pending timer fires once *)
(* its delay has elapsed.                                                  *)
(***************************************************************************)
Timeout(t) ==
    /\ timers[t] # <<>>
    /\ Head(timers[t]) <= now
    /\ message' = [message EXCEPT ![t] = NoText]
    /\ timers' = [timers EXCEPT ![t] = Tail(@)]
    /\ clicks' = <<>>
    /\ UNCHANGED <<theme, stored, now, markup, submitHandler, threw, commitments,
                   list, form, iconCalls>>
    /\ UNCHANGED themeVars

(***************************************************************************)
(* A call of updateThemeIcon() on its own, lines 47-58, the document state *)
(* being what the previous call found.                                     *)
(***************************************************************************)
UpdateIconCall(t) ==
    /\ markup[t].toggle
    /\ Len(iconCalls[t]) < MaxCalls
    /\ icon' = [icon EXCEPT ![t] = UpdateThemeIcon(markup[t], dark[t], icon[t])]
    /\ iconCalls' = [iconCalls EXCEPT ![t] = Append(@, icon'[t])]
    /\ UNCHANGED <<theme, stored, now, markup, dark, clickHandler, clicks>>
    /\ UNCHANGED pledgeVars

\* One second of wall-clock time passes.
Tick ==
    /\ now < MaxTime
    /\ now' = now + 1
    /\ UNCHANGED <<theme, stored, markup, clicks, iconCalls>>
    /\ UNCHANGED themeVars
    /\ UNCHANGED pledgeVars

\* A second passes after the last instant at which the model takes events
\* of the user: the timers set up to then become due.
LateTick ==
    /\ now >= MaxTime
    /\ now < MaxTime + Delay
    /\ now' = now + 1
    /\ UNCHANGED <<theme, stored, markup, clicks, iconCalls>>
    /\ UNCHANGED themeVars
    /\ UNCHANGED pledgeVars

(***************************************************************************)
(* Specifications.                                                         *)
(*                                                                         *)
(* Spec: one tab, every event of the page, localStorage starting from a    *)
(* well-formed `commitments` item.                                         *)
(***************************************************************************)
Init == InitWith(ThemeValues, WellFormedStored)

Next ==
    \/ \E m \in Markups : Load(1, m)
    \/ Click(1)
    \/ \E fields \in FormInputs : Submit(1, fields)
    \/ Timeout(1)
    \/ Tick

Spec == Init /\ [][Next]_vars

(***************************************************************************)
(* SpecTheme: the theme controller in two tabs that share localStorage.    *)
(***************************************************************************)
InitTheme == InitWith(ThemeValues, {StoredAbsent})

NextTheme ==
    \/ \E t \in Tabs, m \in Markups : Load(t, m)
    \/ \E t \in Tabs : Click(t)

SpecTheme == InitTheme /\ [][NextTheme]_vars

(***************************************************************************)
(* SpecTabs: the pledge recorder in two tabs that share localStorage,      *)
(* which starts in any state, well-formed or not.                          *)
(***************************************************************************)
InitTabs == InitWith({Null}, WellFormedStored \cup MalformedStored)

NextTabs ==
    \/ \E t \in Tabs, m \in {FullPage} : Load(t, m)
    \/ \E t \in Tabs, fields \in FormInputs : Submit(t, fields)

SpecTabs == InitTabs /\ [][NextTabs]_vars

(***************************************************************************)
(* SpecPages: one tab that loads pages of every markup, localStorage       *)
(* starting in any state, well-formed or not.                              *)
(***************************************************************************)
InitPages == InitWith(ThemeValues, WellFormedStored \cup MalformedStored)

NextPages ==
    \/ \E m \in AllMarkups : Load(1, m)
    \/ Click(1)
    \/ \E fields \in FormInputs : Submit(1, fields)

SpecPages == InitPages /\ [][NextPages]_vars

(***************************************************************************)
(* SpecIcon: the theme controller in two tabs, with calls of               *)
(* updateThemeIcon on its own.                                             *)
(***************************************************************************)
NextIcon ==
    \/ \E t \in Tabs, m \in Markups : Load(t, m)
    \/ \E t \in Tabs : Click(t)
    \/ \E t \in Tabs : UpdateIconCall(t)

SpecIcon == InitTheme /\ [][NextIcon]_vars

(***************************************************************************)
(* SpecTimers: the pledge recorder in one tab, with the scheduling of the  *)
(* browser: time passes, and a timer that is due is run.  The user acts up *)
(* to the instant MaxTime; the clock runs on until every timer is due.     *)
(***************************************************************************)
InitTimers == InitWith({Null}, WellFormedStored)

NextTimers ==
    \/ \E m \in {FullPage, [FullPage EXCEPT !.message = FALSE]} : Load(1, m)
    \/ \E fields \in FormInputs : now <= MaxTime /\ Submit(1, fields)
    \/ Timeout(1)
    \/ Tick
    \/ LateTick

SpecTimers ==
    /\ InitTimers
    /\ [][NextTimers]_vars
    /\ WF_vars(Timeout(1))
    /\ WF_vars(Tick)
    /\ WF_vars(LateTick)

(***************************************************************************)
(* SpecShared: both components in two tabs that share localStorage.        *)
(***************************************************************************)
InitShared == InitWith({Null, "dark"}, WellFormedStored)

NextShared ==
    \/ \E t \in Tabs, m \in {FullPage} : Load(t, m)
    \/ \E t \in Tabs : Click(t)
    \/ \E t \in Tabs, fields \in ValidInputs : Submit(t, fields)

SpecShared == InitShared /\ [][NextShared]_vars

(***************************************************************************)
(* Vocabulary of the claims.                                               *)
(***************************************************************************)
\* The sequence persisted under `commitments`: the items of the stored JSON
\* array; a value that is no JSON array holds no sequence.
Persisted(s) == IF s.kind = "json" /\ s.shape = "array" THEN s.items ELSE <<>>

IsRecord(item) == DOMAIN item = {"category", "text", "remind", "timestamp"}

\* A well-formed JSON array of commitment records.
IsArrayOfRecords(s) ==
    /\ s.kind = "json"
    /\ s.shape = "array"
    /\ \A i \in 1..Len(s.items) : IsRecord(s.items[i])

IsPrefix(a, b) == Len(a) <= Len(b) /\ SubSeq(b, 1, Len(a)) = a

Range(a) == {a[i] : i \in 1..Len(a)}

(***************************************************************************)
(* C1.  In an initialised page, every submit event whose text is non-empty *)
(* after trimming makes the sequence persisted under `commitments` longer  *)
(* by exactly 1 and appends exactly one block as the last child of the     *)
(* list, the blocks rendered before staying as they were.                  *)
(* Stated for every tab of SpecTabs; it fails in a tab whose in-memory     *)
(* array is older than localStorage (see C4).                              *)
(***************************************************************************)
C1_ValidSubmitAppendsOne ==
    [][\A t \in Tabs, fields \in FormInputs :
         (Submit(t, fields) /\ Trim(fields.text) # <<>>) =>
            /\ Len(Persisted(stored')) = Len(Persisted(stored)) + 1
            /\ Len(list'[t]) = Len(list[t]) + 1
            /\ IsPrefix(list[t], list'[t])]_vars

(***************************************************************************)
(* C2.  A submit event whose text trims to empty is dropped: the in-memory *)
(* array, the stored value, the rendered list, the message and the         *)
(* pending timers are unchanged, and the fields stay as the event found    *)
(* them.                                                                   *)
(***************************************************************************)
C2_BlankSubmitDropped ==
    [][\A fields \in FormInputs :
         (Submit(1, fields) /\ Trim(fields.text) = <<>>) =>
            /\ UNCHANGED <<commitments, stored, list, message, timers>>
            /\ form'[1] = fields]_vars

\* A whitespace-only submission was dropped while the confirmation of an
\* earlier pledge was showing: the fields are still filled, the message stands.
C2_Witness ==
    /\ form[1] \in BlankInputs \ {FormDefaults}
    /\ message[1] = Confirmation
    /\ timers[1] # <<>>
    /\ Len(Persisted(stored)) = Len(list[1])
    /\ Len(list[1]) >= 1

(***************************************************************************)
(* C3.  A page load that finds under `commitments` a value that is not a   *)
(* well-formed JSON array of commitment records treats the sequence as     *)
(* empty: no block is rendered, no exception escapes, and the submit       *)
(* listener is registered with an empty in-memory array.                   *)
(***************************************************************************)
C3_MalformedLoadsAsEmpty ==
    [][\A t \in Tabs, m \in Markups :
         (Load(t, m) /\ m.form /\ m.list /\ ~IsArrayOfRecords(stored)) =>
            /\ list'[t] = <<>>
            /\ ~threw'[t]
            /\ submitHandler'[t]
            /\ commitments'[t] = <<>>]_vars

(***************************************************************************)
(* C4.  A commitment record that is in the sequence persisted under        *)
(* `commitments` is still in it after every event of two tabs that share   *)
(* localStorage.                                                           *)
(***************************************************************************)
C4_PersistedRecordsStay ==
    [][\A r \in Range(Persisted(stored)) :
         IsRecord(r) => r \in Range(Persisted(stored'))]_vars

(***************************************************************************)
(* C5.  In one tab, from a well-formed stored array, the persisted         *)
(* sequence only grows at its end; a valid submission appends the record   *)
(* {category, trimmed text, remind, timestamp of the submission}; and the  *)
(* persisted sequence equals the in-memory array of the page.              *)
(***************************************************************************)
C5_PersistedGrowsAtEnd ==
    [][/\ IsPrefix(Persisted(stored), Persisted(stored'))
       /\ \A fields \in FormInputs :
            (Submit(1, fields) /\ Trim(fields.text) # <<>>) =>
               Persisted(stored') =
                  Append(Persisted(stored),
                         [category |-> fields.category, text |-> Trim(fields.text),
                          remind |-> fields.remind, timestamp |-> now])
       /\ submitHandler'[1] => Persisted(stored') = commitments'[1]]_vars

\* Two pledges made at different times are stored in submission order, after
\* a theme click and a reload of the page.
C5_Witness ==
    /\ Len(Persisted(stored)) = 2
    /\ Persisted(stored)[1].timestamp < Persisted(stored)[2].timestamp
    /\ Persisted(stored)[2].text = <<"a">>
    /\ commitments[1] = Persisted(stored)
    /\ theme = "dark"
    /\ timers[1] = <<>>
    /\ message[1] = NoText
    /\ Len(list[1]) = 2

(***************************************************************************)
(* C6.  Round trip: a reload renders exactly one block per stored record,  *)
(* in stored order, each block showing the category, the text and the      *)
(* reminder of its record.                                                 *)
(***************************************************************************)
C6_ReloadShowsStoredRecords ==
    [][\A m \in Markups :
         (Load(1, m) /\ m.form /\ m.list) =>
            /\ Len(list'[1]) = Len(Persisted(stored))
            /\ \A i \in 1..Len(Persisted(stored)) :
                 i <= Len(list'[1]) =>
                    /\ list'[1][i].category = Persisted(stored)[i].category
                    /\ list'[1][i].text = Persisted(stored)[i].text
                    /\ list'[1][i].remind = Persisted(stored)[i].remind]_vars

(***************************************************************************)
(* C7.  Two consecutive clicks on the toggle of a tab.                     *)
(* As claimed: the document state and the preference stored under `theme`  *)
(* (absent, "light" or "dark" before the clicks) are both what they were   *)
(* before the two clicks.                                                  *)
(***************************************************************************)
TwoClicks == Len(clicks) = 2

C7_TwoClicksRestoreStored ==
    (TwoClicks /\ clicks[1].theme \in {Null, "light", "dark"}) =>
        /\ dark[clicks[1].tab] = clicks[1].dark
        /\ theme = clicks[1].theme

(***************************************************************************)
(* C7, amended.  Two consecutive clicks return the document state to what  *)
(* it was and leave under `theme` the name of that state: the stored       *)
(* preference is what it was before the clicks whenever it then named the  *)
(* state of the document, and a preference that was absent is not          *)
(* restored, a name now being stored.                                      *)
(***************************************************************************)
C7_TwoClicksRestoreState ==
    TwoClicks =>
        /\ dark[clicks[1].tab] = clicks[1].dark
        /\ (dark[clicks[1].tab] => theme = "dark")
        /\ (~dark[clicks[1].tab] => theme = "light")
        /\ (clicks[1].dark /\ clicks[1].theme = "dark") => theme = clicks[1].theme
        /\ (~clicks[1].dark /\ clicks[1].theme = "light") => theme = clicks[1].theme
        /\ clicks[1].theme = Null => theme # Null

\* Tab 2 has been clicked twice from dark state with "dark" stored, while
\* tab 1 shows a page loaded earlier.
C7_Witness ==
    /\ TwoClicks
    /\ clicks[1] = [tab |-> 2, dark |-> TRUE, theme |-> "dark"]
    /\ clicks[2] = [tab |-> 2, dark |-> FALSE, theme |-> "light"]
    /\ dark[2]
    /\ theme = "dark"
    /\ clickHandler[1]

(***************************************************************************)
(* C8.  A click flips the document state and stores its name, and from     *)
(* then until the tab reloads the stored value is "dark" exactly when the  *)
(* document is dark and "light" exactly when it is light.                  *)
(***************************************************************************)
StoredNamesState(t) ==
    /\ theme \in {"dark", "light"}
    /\ theme = "dark" <=> dark[t]
    /\ theme = "light" <=> ~dark[t]

C8_StoredNamesStateSinceClick ==
    [][/\ Click(1) => (dark'[1] = ~dark[1] /\ StoredNamesState(1)')
       /\ (StoredNamesState(1) /\ ~(\E m \in Markups : Load(1, m))) =>
             StoredNamesState(1)']_vars

\* On a page that holds a pledge, a click has just taken the document from
\* light to dark, and "dark" is stored where no preference was.
C8_Witness ==
    /\ clicks # <<>>
    /\ clicks[Len(clicks)] = [tab |-> 1, dark |-> FALSE, theme |-> Null]
    /\ StoredNamesState(1)
    /\ dark[1]
    /\ Len(commitments[1]) = 1
    /\ now > 0

(***************************************************************************)
(* C9.  With the toggle present the button shows the sun and the title     *)
(* "Switch to light mode" exactly when the document is dark, the moon and  *)
(* "Switch to dark mode" exactly when it is light; a load that finds       *)
(* "dark" stored ends dark with the sun.                                   *)
(***************************************************************************)
IconShows(t) ==
    /\ icon[t].glyphs \in {<<Sun>>, <<Moon>>}
    /\ (icon[t].glyphs = <<Sun>> /\ icon[t].title = "Switch to light mode") <=> dark[t]
    /\ (icon[t].glyphs = <<Moon>> /\ icon[t].title = "Switch to dark mode") <=> ~dark[t]

C10_ConfirmationShownForDelay ==
    \A t \in Tabs :
        (timers[t] # <<>> /\ now < timers[t][Len(timers[t])]) =>
            message[t] = Confirmation

(***************************************************************************)
(* C11.  Initialisation with required markup missing is a silent no-op.    *)
(* A load of a page without the toggle leaves the document state as the    *)
(* markup gives it, leaves `theme` as stored, fills no button and          *)
(* registers no click listener, and the pledge form is initialised all the *)
(* same.  A load of a page without the form or without the list holds no   *)
(* commitments, renders nothing, registers no submit listener, writes      *)
(* nothing and lets no exception escape, whatever is stored, and the       *)
(* toggle is initialised all the same.                                     *)
(***************************************************************************)
Loadable(s) == s.kind # "json" \/ IsArrayOfRecords(s)

C11_MissingMarkupIsNoOp ==
    [][\A m \in AllMarkups :
         Load(1, m) =>
            /\ ~m.toggle =>
                 /\ dark'[1] = m.bodyDark
                 /\ icon'[1] = NoIcon
                 /\ ~clickHandler'[1]
                 /\ theme' = theme
                 /\ (m.form /\ m.list /\ Loadable(stored)) =>
                       (submitHandler'[1] /\ ~threw'[1])
            /\ ~(m.form /\ m.list) =>
                 /\ commitments'[1] = <<>>
                 /\ list'[1] = <<>>
                 /\ ~submitHandler'[1]
                 /\ ~threw'[1]
                 /\ stored' = stored
                 /\ message'[1] = NoText
                 /\ timers'[1] = <<>>
                 /\ m.toggle =>
                       (clickHandler'[1] /\ dark'[1] = (m.bodyDark \/ theme = "dark"))]_vars

\* With "dark" stored, the tab shows the page without the toggle: it is
\* light, has no click listener, and its pledge form works.
C11_Witness ==
    /\ theme = "dark"
    /\ markup[1] = [FullPage EXCEPT !.toggle = FALSE]
    /\ ~dark[1]
    /\ icon[1] = NoIcon
    /\ ~clickHandler[1]
    /\ submitHandler[1]
    /\ Len(list[1]) = 2

(***************************************************************************)
(* C12.  updateThemeIcon is idempotent: after every further call made with *)
(* the document state unchanged the button holds the same single glyph and *)
(* the same title as after the first call; a call changes neither the      *)
(* document state nor localStorage.                                        *)
(***************************************************************************)
C12_IconUpdateIdempotent ==
    /\ [](\A t \in Tabs : \A i \in 1..Len(iconCalls[t]) :
             /\ iconCalls[t][i] = iconCalls[t][1]
             /\ Len(iconCalls[t][i].glyphs) = 1)
    /\ [][\A t \in Tabs :
            UpdateIconCall(t) => UNCHANGED <<dark, theme, stored>>]_vars

\* In dark state, after a click, the routine has been called a second time.
C12_Witness ==
    /\ Len(iconCalls[1]) = 2
    /\ dark[1]
    /\ theme = "dark"
    /\ icon[1] = [glyphs |-> <<Sun>>, title |-> "Switch to light mode"]
    /\ icon[1] = iconCalls[1][2]

(***************************************************************************)
(* C13.  The theme survives reloads.  A load of a page with the toggle     *)
(* whose markup starts light ends dark exactly when "dark" is stored under *)
(* `theme`; so in one tab, when the page before the reload was such a page *)
(* too (clicked any number of times), the document state after the reload  *)
(* is the state just before it.  No load writes `theme`.                   *)
(***************************************************************************)
C13_ThemeSurvivesReload ==
    [][\A m \in AllMarkups :
         Load(1, m) =>
            /\ theme' = theme
            /\ (m.toggle /\ ~m.bodyDark) =>
                 /\ dark'[1] <=> theme = "dark"
                 /\ (clickHandler[1] /\ ~markup[1].bodyDark) => dark'[1] = dark[1]]_vars

\* With "dark" stored, the page that holds two pledges has been reloaded: it
\* is dark, with the sun on the button put there by the load.
C13_Witness ==
    /\ theme = "dark"
    /\ dark[1]
    /\ clicks = <<>>
    /\ markup[1] = FullPage
    /\ iconCalls[1] = <<[glyphs |-> <<Sun>>, title |-> "Switch to light mode"]>>
    /\ form[1] = FormDefaults
    /\ message[1] = NoText
    /\ Len(list[1]) = 2
    /\ timers[1] = <<>>

(***************************************************************************)
(* C14.  The two components do not affect each other: a click leaves the   *)
(* stored commitments, the in-memory array, the rendered list and the      *)
(* message unchanged; a submit event, valid or empty, and a timer firing   *)
(* leave `theme`, the document state and the icon and title of the toggle  *)
(* unchanged.                                                              *)
(***************************************************************************)
C14_ComponentsIndependent ==
    [][/\ Click(1) => UNCHANGED <<stored, commitments, list, message>>
       /\ (\E fields \in FormInputs : Submit(1, fields)) =>
             UNCHANGED <<theme, dark, icon>>
       /\ Timeout(1) => UNCHANGED <<theme, dark, icon>>]_vars

\* In dark state the confirmation of a second pledge is showing, the timer
\* of the first pledge having fired already.
C14_Witness ==
    /\ theme = "dark"
    /\ dark[1]
    /\ icon[1] = [glyphs |-> <<Sun>>, title |-> "Switch to light mode"]
    /\ Len(list[1]) = 2
    /\ Len(Persisted(stored)) = 2
    /\ message[1] = Confirmation
    /\ Len(timers[1]) = 1
    /\ now >= Delay

(***************************************************************************)
(* C15.  The confirmation is never left showing forever: whenever the      *)
(* message shows the confirmation a clearing timer is pending, and, due    *)
(* timers being run, once valid submissions have stopped the message is    *)
(* eventually empty and stays empty.                                       *)
(***************************************************************************)
ValidSubmitStep ==
    \E fields \in ValidInputs : Submit(1, fields)

C15_ConfirmationIsCleared ==
    /\ [](message[1] = Confirmation => timers[1] # <<>>)
    /\ <>[][~ValidSubmitStep]_vars => <>[](message[1] = NoText)

\* The confirmation of a second pledge is showing with its timer pending; the
\* timer of the first pledge has fired.
C15_Witness ==
    /\ message[1] = Confirmation
    /\ Len(timers[1]) = 1
    /\ Len(commitments[1]) = 2
    /\ now >= Delay

(***************************************************************************)
(* C16.  With two tabs on the same localStorage, a click or a valid        *)
(* submission in one tab leaves the document state, the icon, the          *)
(* in-memory array and the rendered list of the other tab unchanged; a     *)
(* reload of a tab puts its document state in line with the stored theme   *)
(* and renders one block per record then stored, in stored order, the      *)
(* in-memory array being the stored sequence.                              *)
(***************************************************************************)
OtherTab(t) == CHOOSE o \in Tabs : o # t

C16_OtherTabSeesWritesOnReload ==
    [][\A t \in Tabs :
         /\ (Click(t) \/ \E fields \in ValidInputs : Submit(t, fields)) =>
               /\ dark'[OtherTab(t)] = dark[OtherTab(t)]
               /\ icon'[OtherTab(t)] = icon[OtherTab(t)]
               /\ commitments'[OtherTab(t)] = commitments[OtherTab(t)]
               /\ list'[OtherTab(t)] = list[OtherTab(t)]
         /\ \A m \in Markups :
               Load(t, m) =>
                  /\ m.toggle => (dark'[t] <=> theme = "dark")
                  /\ (m.form /\ m.list) =>
                       /\ commitments'[t] = Persisted(stored)
                       /\ Len(list'[t]) = Len(Persisted(stored))
                       /\ \A i \in 1..Len(Persisted(stored)) :
                            i <= Len(list'[t]) =>
                               /\ list'[t][i].category = Persisted(stored)[i].category
                               /\ list'[t][i].remind = Persisted(stored)[i].remind]_vars

\* Tab 1 has gone dark and recorded a pledge; tab 2, loaded before that, is
\* still light and shows no pledge, while localStorage holds both writes.
C16_Witness ==
    /\ theme = "dark"
    /\ Len(Persisted(stored)) = 1
    /\ dark[1]
    /\ Len(list[1]) = 1
    /\ clickHandler[2]
    /\ submitHandler[2]
    /\ ~dark[2]
    /\ icon[2] = [glyphs |-> <<Moon>>, title |-> "Switch to dark mode"]
    /\ commitments[2] = <<>>
    /\ list[2] = <<>>

=============================================================================
